---- MODULE Spec2Model ----
(***************************************************************************)
(* The DeepRacer training notebook                                         *)
(* (rl_deepracer_coach_robomaker.ipynb) as a state machine: one action per *)
(* code cell (a cell with a try/except is split at the SDK call, so that   *)
(* the response or the exception in flight is a state), the wall clock,    *)
(* the RoboMaker service and the remote training job as the environment.   *)
(* A run is "Run All": cells execute top to bottom and an uncaught         *)
(* exception stops the run.                                                *)
(***************************************************************************)
EXTENDS Integers, Sequences, FiniteSets, TLC

VARIABLES
    pc,                     \* the cell about to run, "raised" or "done"
    clock,                  \* wall clock, in ticks
    boto_region_name,       \* the session's region (environment)
    num_simulation_workers,
    calls,                  \* every SDK / CLI call issued so far, in order
    displayed,              \* display(Markdown(...)) outputs, in order
    stdout,                 \* print outputs of the endpoint cell
    exc,                    \* the exception that stopped the run
    pending,                \* response or exception of the SDK call inside a try
    s3_bucket, tm, job_name, s3_prefix, s3_prefix_robomaker, aws_region,
    route_tables,
    simulation_app_arn, simulation_application, responses, job_arns,
    intermediate_folder_key, key,
    csv_file,               \* the downloaded metrics file: <<>> or <<rows>>
    s3_csv,                 \* the metrics object in S3: <<>> absent, <<rows>> present
    df,                     \* the data frame handed to plot: <<>> or <<rows>>
    cancel_no,              \* position of the teardown loop in job_arns
    sim_jobs                \* RoboMaker's simulation jobs, in creation order

\* The environment's configuration, fixed for a run.
config == <<boto_region_name, num_simulation_workers>>

\* The notebook's outputs.
outputs == <<displayed, stdout>>

\* The names the Define Variables cell assigns.
naming == <<tm, job_name, s3_prefix, s3_prefix_robomaker, aws_region>>

\* The simulation cells' variables.
simulation == <<simulation_app_arn, simulation_application, responses, job_arns,
                cancel_no>>

\* The monitoring cells' variables.
monitoring == <<intermediate_folder_key, key, csv_file, df>>

vars == <<pc, clock, config, calls, outputs, exc, pending, s3_bucket, naming,
          route_tables, simulation, monitoring, s3_csv, sim_jobs>>

\* ------------------------------------------------------------------ bounds

MaxWorkers == 2
MaxClock == 2
TicksPerSecond == 2
MaxFrameRows == 3

\* ----------------------------------------------------------------- strings

\* Python's `sub in s` on strings.
Contains(s, sub) ==
    \E i \in 1..(Len(s) - Len(sub) + 1) : SubSeq(s, i, i + Len(sub) - 1) = sub

StartsWith(s, p) == Len(s) >= Len(p) /\ SubSeq(s, 1, Len(p)) = p

\* time.gmtime(): the wall clock truncated to whole seconds.
Gmtime == clock \div TicksPerSecond

TwoDigits(n) == IF n < 10 THEN "0" \o ToString(n) ELSE ToString(n)

FmtShort == "%y%m%d-%H%M%S"
FmtLong == "%Y-%m-%d-%H-%M-%S"

\* time.strftime(fmt, t) for the two formats the notebook uses; t counts the
\* seconds since 2019-01-01 00:00:00 UTC and stays within that day.
Strftime(fmt, t) ==
    LET hh == TwoDigits((t \div 3600) % 24)
        mm == TwoDigits((t \div 60) % 60)
        ss == TwoDigits(t % 60)
    IN  IF fmt = FmtShort
        THEN "190101-" \o hh \o mm \o ss
        ELSE "2019-01-01-" \o hh \o "-" \o mm \o "-" \o ss

\* -------------------------------------------------------------- exceptions

NoExc == [type |-> "", msg |-> "", at |-> ""]
NoPending == [kind |-> "none", msg |-> "", val |-> <<>>]

\* str(e) of the exceptions the SDK calls can raise.
Messages ==
    { "RouteAlreadyExists",
      "UnauthorizedOperation",
      "UnauthorizedOperation: RouteAlreadyExists",
      "AccessDeniedException",
      "EndpointConnectionError" }

RegionMessage == "This notebook uses RoboMaker which is available only in US East (N. Virginia), US West (Oregon) and EU (Ireland). Please switch to one of these regions."

Regions == {"us-west-2", "us-east-1", "eu-west-1", "us-east-2", "ap-south-1"}

\* One issued call: its arguments and whether it returned.
Call(api, args, ok) == [api |-> api, args |-> args, ok |-> ok]

\* A call logged with the clock tick it was issued at.
TimedCall(api, args, ok) == [api |-> api, args |-> args, ok |-> ok, at |-> clock]

Raised(type, msg) ==
    /\ pc' = "raised"
    /\ exc' = [type |-> type, msg |-> msg, at |-> pc]

ReraiseWrapped(msg) == Raised("Exception", "S3 endpoint setup failed: " \o msg)

\* raise e in an except branch: the exception the SDK call raised goes on, as it is.
Reraise(msg) == Raised("ClientError", msg)

\* ------------------------------------------------------------------- Init

NoApplication == [application |-> "", launchFile |-> "", environmentVariables |-> <<>>]

Init ==
    /\ pc = "setup_bucket"
    /\ clock = 0
    /\ boto_region_name \in Regions
    /\ num_simulation_workers \in 1..MaxWorkers
    /\ calls = <<>>
    /\ displayed = <<>>
    /\ stdout = <<>>
    /\ exc = NoExc
    /\ pending = NoPending
    /\ s3_bucket = ""
    /\ tm = 0
    /\ job_name = ""
    /\ s3_prefix = ""
    /\ s3_prefix_robomaker = ""
    /\ aws_region = ""
    /\ route_tables = <<>>
    /\ simulation_app_arn = ""
    /\ simulation_application = NoApplication
    /\ responses = <<>>
    /\ job_arns = <<>>
    /\ intermediate_folder_key = ""
    /\ key = ""
    /\ s3_csv = <<>>
    /\ csv_file = <<>>
    /\ df = <<>>
    /\ cancel_no = 0
    /\ sim_jobs = <<>>

\* ------------------------------------------------------------ environment

\* The cells that read the wall clock.
ClockReaders == {"define_vars", "create_app", "launch_loop", "evaluation"}

\* Time passes; only the cells that call gmtime() observe it.
Tick ==
    /\ pc \in ClockReaders
    /\ clock < MaxClock
    /\ clock' = clock + 1
    /\ UNCHANGED <<pc, config, calls, outputs, exc, pending, s3_bucket, naming,
                   route_tables, simulation, monitoring, s3_csv, sim_jobs>>

\* str(e) of the exceptions raised where no handler looks at the message.
UnhandledMessages == {"EndpointConnectionError"}

FailsWithRollback(call) ==
    /\ calls' = calls \o << call, Call("stop_training_job",
                                       [TrainingJobName |-> job_name], TRUE) >>
    /\ \E m \in UnhandledMessages : Raised("ClientError", m)

\* An SDK call outside any try block fails: the exception stops the run.
Fails(call) ==
    /\ calls' = Append(calls, call)
    /\ \E m \in UnhandledMessages : Raised("ClientError", m)

\* ------------------------------------------------------------- the cells

\* Setup S3 bucket.
SetupBucket ==
    /\ pc = "setup_bucket"
    /\ \/ /\ calls' = Append(calls, Call("default_bucket", <<>>, TRUE))
          /\ s3_bucket' = "sagemaker-" \o boto_region_name \o "-123456789012"
          /\ pc' = "define_vars"
          /\ UNCHANGED exc
       \/ /\ Fails(Call("default_bucket", <<>>, FALSE))
          /\ UNCHANGED s3_bucket
    /\ UNCHANGED <<clock, config, outputs, pending, naming, route_tables,
                   simulation, monitoring, s3_csv, sim_jobs>>

job_name_prefix == "rl-deepracer"

SupportedRegionsWide == {"us-west-2", "us-east-1", "eu-west-1", "us-east-2"}

\* The regions the gate lets through.
SupportedRegions == {"us-west-2", "us-east-1", "eu-west-1"}

SageMakerName(t) == job_name_prefix \o "-sagemaker-" \o Strftime(FmtShort, t)

RoboMakerPrefixLater(t) ==
    job_name_prefix \o "-robomaker-" \o Strftime(FmtShort, t + 1)

RoboMakerPrefix(t) == job_name_prefix \o "-robomaker-" \o Strftime(FmtShort, t)

\* Define Variables, with the region gate.
DefineVariables ==
    /\ pc = "define_vars"
    /\ tm' = Gmtime
    /\ job_name' = SageMakerName(tm')
    /\ s3_prefix' = job_name'
    /\ s3_prefix_robomaker' = RoboMakerPrefix(tm')
    /\ aws_region' = boto_region_name
    /\ IF aws_region' \notin SupportedRegions
       THEN Raised("Exception", RegionMessage)
       ELSE pc' = "role" /\ UNCHANGED exc
    /\ UNCHANGED <<clock, config, calls, outputs, pending, s3_bucket,
                   route_tables, simulation, monitoring, s3_csv, sim_jobs>>

\* Create an IAM role: sagemaker.get_execution_role() or, when that raises, the
\* helper get_execution_role('sagemaker'). The log keeps the call that decided
\* the cell: the one that returned the role, or the helper's failure.
CreateRole ==
    /\ pc = "role"
    /\ \/ /\ calls' = Append(calls, Call("get_execution_role", <<>>, TRUE))
          /\ pc' = "trust_help"
          /\ UNCHANGED exc
       \/ Fails(Call("get_execution_role", <<"sagemaker">>, FALSE))
    /\ UNCHANGED <<clock, config, outputs, pending, s3_bucket, naming,
                   route_tables, simulation, monitoring, s3_csv, sim_jobs>>

\* Permission setup: the trust-relationship help is displayed.
DisplayTrustHelp ==
    /\ pc = "trust_help"
    /\ displayed' = Append(displayed, "generate_help_for_robomaker_trust_relationship")
    /\ pc' = "configure_vpc"
    /\ UNCHANGED <<clock, config, calls, stdout, exc, pending, s3_bucket, naming,
                   route_tables, simulation, monitoring, s3_csv, sim_jobs>>

\* Configure VPC: the default VPC, its security groups and its subnets.
ConfigureVpc ==
    /\ pc = "configure_vpc"
    /\ \/ /\ calls' = calls \o << Call("describe_vpcs", <<>>, TRUE),
                                  Call("describe_security_groups", <<>>, TRUE),
                                  Call("describe_subnets", <<>>, TRUE) >>
          /\ pc' = "describe_route_tables"
          /\ UNCHANGED exc
       \/ Fails(Call("describe_vpcs", <<>>, FALSE))
       \/ \* no VPC has IsDefault: [...][0] on an empty list
          /\ calls' = Append(calls, Call("describe_vpcs", <<>>, TRUE))
          /\ Raised("IndexError", "list index out of range")
       \/ /\ calls' = calls \o << Call("describe_vpcs", <<>>, TRUE),
                                  Call("describe_security_groups", <<>>, FALSE) >>
          /\ \E m \in UnhandledMessages : Raised("ClientError", m)
       \/ /\ calls' = calls \o << Call("describe_vpcs", <<>>, TRUE),
                                  Call("describe_security_groups", <<>>, TRUE),
                                  Call("describe_subnets", <<>>, FALSE) >>
          /\ \E m \in UnhandledMessages : Raised("ClientError", m)
    /\ UNCHANGED <<clock, config, outputs, pending, s3_bucket, naming,
                   route_tables, simulation, monitoring, s3_csv, sim_jobs>>

\* The route-table lists describe_route_tables can return for the default VPC.
RouteTableLists == { <<>>, << "rtb-1" >>, << "rtb-1", "rtb-2" >> }

\* try: ec2.describe_route_tables(), filtered on the default VPC.
DescribeRouteTablesCall ==
    /\ pc = "describe_route_tables"
    /\ \/ \E rts \in RouteTableLists :
            /\ calls' = Append(calls, Call("describe_route_tables", <<>>, TRUE))
            /\ pending' = [kind |-> "ok", msg |-> "", val |-> rts]
       \/ \E m \in Messages :
            /\ calls' = Append(calls, Call("describe_route_tables", <<>>, FALSE))
            /\ pending' = [kind |-> "exc", msg |-> m, val |-> <<>>]
    /\ pc' = "route_tables_result"
    /\ UNCHANGED <<clock, config, outputs, exc, s3_bucket, naming, route_tables,
                   simulation, monitoring, s3_csv, sim_jobs>>

\* The help text an except branch of the endpoint cell displays for str(e).
RouteTablesHelp(msg) ==
    IF Contains(msg, "UnauthorizedOperation")
    THEN "generate_help_for_s3_endpoint_permissions"
    ELSE "create_s3_endpoint_manually"

RouteTablesAssertOff(rts) == Len(rts) >= 0

\* assert len(route_tables) >= 1
RouteTablesAssert(rts) == Len(rts) >= 1

\* The except branch of describe_route_tables, else the assert on its result.
DescribeRouteTablesResult ==
    /\ pc = "route_tables_result"
    /\ pending' = NoPending
    /\ IF pending.kind = "exc"
       THEN /\ displayed' = Append(displayed, RouteTablesHelp(pending.msg))
            /\ Reraise(pending.msg)
            /\ UNCHANGED route_tables
       ELSE /\ route_tables' = pending.val
            /\ UNCHANGED displayed
            /\ IF RouteTablesAssert(route_tables')
               THEN pc' = "create_vpc_endpoint" /\ UNCHANGED exc
               ELSE Raised("AssertionError", "No route tables were found.")
    /\ UNCHANGED <<clock, config, calls, stdout, s3_bucket, naming, simulation,
                   monitoring, s3_csv, sim_jobs>>

\* try: ec2.create_vpc_endpoint(..., RouteTableIds=route_tables)
CreateVpcEndpointCall ==
    /\ pc = "create_vpc_endpoint"
    /\ \/ /\ calls' = Append(calls, Call("create_vpc_endpoint",
                                         [RouteTableIds |-> route_tables], TRUE))
          /\ pending' = [kind |-> "ok", msg |-> "", val |-> <<>>]
       \/ \E m \in Messages :
            /\ calls' = Append(calls, Call("create_vpc_endpoint",
                                           [RouteTableIds |-> route_tables], FALSE))
            /\ pending' = [kind |-> "exc", msg |-> m, val |-> <<>>]
    /\ pc' = "vpc_endpoint_result"
    /\ UNCHANGED <<clock, config, outputs, exc, s3_bucket, naming, route_tables,
                   simulation, monitoring, s3_csv, sim_jobs>>

EndpointExceptAuthFirst(msg) ==
    IF Contains(msg, "UnauthorizedOperation")
    THEN "generate_help_for_s3_endpoint_permissions"
    ELSE IF Contains(msg, "RouteAlreadyExists") THEN "swallow"
         ELSE "create_s3_endpoint_manually"

EndpointExceptLenient(msg) ==
    IF Contains(msg, "UnauthorizedOperation")
    THEN "generate_help_for_s3_endpoint_permissions"
    ELSE "swallow"

\* What the except branch of create_vpc_endpoint does with str(e):
\* "swallow", or the help text it displays before raise e.
EndpointExcept(msg) ==
    IF Contains(msg, "RouteAlreadyExists") THEN "swallow"
    ELSE IF Contains(msg, "UnauthorizedOperation")
         THEN "generate_help_for_s3_endpoint_permissions"
         ELSE "create_s3_endpoint_manually"

\* The rest of the try block, or the except branch, of create_vpc_endpoint.
CreateVpcEndpointResult ==
    /\ pc = "vpc_endpoint_result"
    /\ pending' = NoPending
    /\ IF pending.kind = "ok"
       THEN /\ stdout' = Append(stdout, "S3 endpoint created successfully!")
            /\ pc' = "staging"
            /\ UNCHANGED <<displayed, exc>>
       ELSE IF EndpointExcept(pending.msg) = "swallow"
       THEN /\ stdout' = Append(stdout, "S3 endpoint already exists.")
            /\ pc' = "staging"
            /\ UNCHANGED <<displayed, exc>>
       ELSE /\ displayed' = Append(displayed, EndpointExcept(pending.msg))
            /\ Reraise(pending.msg)
            /\ UNCHANGED stdout
    /\ UNCHANGED <<clock, config, calls, s3_bucket, naming, route_tables,
                   simulation, monitoring, s3_csv, sim_jobs>>

\* "s3://%s/%s" % (s3_bucket, s3_prefix)
S3Location(bucket, prefix) == "s3://" \o bucket \o "/" \o prefix

StagingCopyFirst ==
    /\ pc = "staging"
    /\ LET s3_location == S3Location(s3_bucket, s3_prefix)
       IN  calls' = calls \o
             << Call("aws s3 cp", [source |-> "src/robomaker/environments/",
                                   target |-> s3_location \o "/environments/"], TRUE),
                Call("aws s3 cp", [source |-> "src/robomaker/presets/",
                                   target |-> s3_location \o "/presets/"], TRUE),
                Call("aws s3 rm", [target |-> s3_location], TRUE) >>
    /\ pc' = "fit"
    /\ UNCHANGED <<clock, config, outputs, exc, pending, s3_bucket, naming,
                   route_tables, simulation, monitoring, s3_csv, sim_jobs>>

\* Artifact staging: three shell commands (a failing shell command does not
\* raise, so the cell always completes).
Staging ==
    /\ pc = "staging"
    /\ LET s3_location == S3Location(s3_bucket, s3_prefix)
       IN  calls' = calls \o
             << Call("aws s3 rm", [target |-> s3_location], TRUE),
                Call("aws s3 cp", [source |-> "src/robomaker/environments/",
                                   target |-> s3_location \o "/environments/"], TRUE),
                Call("aws s3 cp", [source |-> "src/robomaker/presets/",
                                   target |-> s3_location \o "/presets/"], TRUE) >>
    /\ pc' = "fit"
    /\ UNCHANGED <<clock, config, outputs, exc, pending, s3_bucket, naming,
                   route_tables, simulation, monitoring, s3_csv, sim_jobs>>

RLCOACH_PRESET == "deepracer"

\* The training job request of RLEstimator(...).fit(job_name=job_name, wait=False).
TrainingRequest ==
    [ TrainingJobName |-> job_name,
      train_instance_count |-> 1,
      wait |-> FALSE,
      hyperparameters |-> [ s3_bucket |-> s3_bucket,
                            s3_prefix |-> s3_prefix,
                            aws_region |-> aws_region,
                            RLCOACH_PRESET |-> RLCOACH_PRESET ] ]

\* estimator.fit(job_name=job_name, wait=False)
Fit ==
    /\ pc = "fit"
    /\ \/ /\ calls' = Append(calls, Call("create_training_job", TrainingRequest, TRUE))
          /\ pc' = "bundle"
          /\ UNCHANGED exc
       \/ Fails(Call("create_training_job", TrainingRequest, FALSE))
    /\ UNCHANGED <<clock, config, outputs, pending, s3_bucket, naming,
                   route_tables, simulation, monitoring, s3_csv, sim_jobs>>

bundle_s3_key == "deepracer/simulation_ws.tar.gz"

\* The bundle is downloaded and copied to the bucket (shell commands).
BundleUpload ==
    /\ pc = "bundle"
    /\ calls' = Append(calls, Call("aws s3 cp",
                    [source |-> "simulation_ws.tar.gz",
                     target |-> S3Location(s3_bucket, bundle_s3_key)], TRUE))
    /\ pc' = "create_app"
    /\ UNCHANGED <<clock, config, outputs, exc, pending, s3_bucket, naming,
                   route_tables, simulation, monitoring, s3_csv, sim_jobs>>

AppName(t) == "deepracer-sample-application" \o Strftime(FmtShort, t)

\* try: robomaker.create_simulation_application(name=app_name, ...)
CreateSimulationApplicationCall ==
    /\ pc = "create_app"
    /\ LET app_name == AppName(Gmtime)
       IN  \/ /\ calls' = Append(calls, Call("create_simulation_application",
                                             [name |-> app_name], TRUE))
              /\ pending' = [kind |-> "ok", msg |-> "",
                             val |-> << "arn:simulation-application/" \o app_name >>]
           \/ \E m \in Messages :
                /\ calls' = Append(calls, Call("create_simulation_application",
                                               [name |-> app_name], FALSE))
                /\ pending' = [kind |-> "exc", msg |-> m, val |-> <<>>]
    /\ pc' = "create_app_result"
    /\ UNCHANGED <<clock, config, outputs, exc, s3_bucket, naming, route_tables,
                   simulation, monitoring, s3_csv, sim_jobs>>

CreateSimulationApplicationResultLenient ==
    /\ pc = "create_app_result"
    /\ pending' = NoPending
    /\ IF pending.kind = "ok"
       THEN /\ simulation_app_arn' = pending.val[1]
            /\ pc' = "launch_setup"
            /\ UNCHANGED <<displayed, exc>>
       ELSE IF Contains(pending.msg, "AccessDeniedException")
       THEN /\ displayed' = Append(displayed, "generate_help_for_robomaker_all_permissions")
            /\ Reraise(pending.msg)
            /\ UNCHANGED simulation_app_arn
       ELSE /\ pc' = "launch_setup"
            /\ UNCHANGED <<displayed, exc, simulation_app_arn>>
    /\ UNCHANGED <<clock, config, calls, stdout, s3_bucket, naming, route_tables,
                   simulation_application, responses, job_arns, cancel_no,
                   monitoring, s3_csv, sim_jobs>>

\* The rest of the try block, or the except branch, of create_simulation_application.
CreateSimulationApplicationResult ==
    /\ pc = "create_app_result"
    /\ pending' = NoPending
    /\ IF pending.kind = "ok"
       THEN /\ simulation_app_arn' = pending.val[1]
            /\ pc' = "launch_setup"
            /\ UNCHANGED <<displayed, exc>>
       ELSE /\ displayed' =
                 IF Contains(pending.msg, "AccessDeniedException")
                 THEN Append(displayed, "generate_help_for_robomaker_all_permissions")
                 ELSE displayed
            /\ Reraise(pending.msg)
            /\ UNCHANGED simulation_app_arn
    /\ UNCHANGED <<clock, config, calls, stdout, s3_bucket, naming, route_tables,
                   simulation_application, responses, job_arns, cancel_no,
                   monitoring, s3_csv, sim_jobs>>

TrainingEnvOneWorker ==
    [ MODEL_S3_BUCKET |-> s3_bucket,
      MODEL_S3_PREFIX |-> s3_prefix,
      ROS_AWS_REGION |-> aws_region,
      WORLD_NAME |-> "hard_track",
      MARKOV_PRESET_FILE |-> RLCOACH_PRESET \o ".py",
      NUMBER_OF_ROLLOUT_WORKERS |-> ToString(1) ]

\* envriron_vars of the launch cell.
TrainingEnv ==
    [ MODEL_S3_BUCKET |-> s3_bucket,
      MODEL_S3_PREFIX |-> s3_prefix,
      ROS_AWS_REGION |-> aws_region,
      WORLD_NAME |-> "hard_track",
      MARKOV_PRESET_FILE |-> RLCOACH_PRESET \o ".py",
      NUMBER_OF_ROLLOUT_WORKERS |-> ToString(num_simulation_workers) ]

\* The launch cell up to the loop.
LaunchSetup ==
    /\ pc = "launch_setup"
    /\ simulation_application' =
         [ application |-> simulation_app_arn,
           launchFile |-> "distributed_training.launch",
           environmentVariables |-> TrainingEnv ]
    /\ responses' = <<>>
    /\ pc' = "launch_loop"
    /\ UNCHANGED <<clock, config, calls, outputs, exc, pending, s3_bucket, naming,
                   route_tables, simulation_app_arn, job_arns, cancel_no,
                   monitoring, s3_csv, sim_jobs>>

ClientRequestTokenPerTick == Strftime(FmtLong, clock)

\* clientRequestToken=strftime("%Y-%m-%d-%H-%M-%S", gmtime())
ClientRequestToken == Strftime(FmtLong, Gmtime)

\* The create_simulation_job request of the launch loop and of the evaluation cell.
SimulationJobRequest ==
    [ clientRequestToken |-> ClientRequestToken,
      failureBehavior |-> "Continue",
      simulationApplications |-> << simulation_application' >>,
      s3Prefix |-> s3_prefix_robomaker ]

\* RoboMaker's jobs created with this token.
JobsWithToken(token) == { j \in 1..Len(sim_jobs) : sim_jobs[j].token = token }

\* RoboMaker serves create_simulation_job: the responses it can give. A new job
\* is created unless the service deduplicates by clientRequestToken and has a job
\* for this token, which it then answers with.
ServeCreateSimulationJob(req) ==
    LET arn == "arn:simulation-job/" \o ToString(Len(sim_jobs) + 1)
        created == [ arn |-> arn,
                     jobs |-> Append(sim_jobs,
                                [ arn |-> arn,
                                  token |-> req.clientRequestToken,
                                  launchFile |-> req.simulationApplications[1].launchFile ]) ]
    IN  { created } \cup
        { [ arn |-> sim_jobs[j].arn, jobs |-> sim_jobs ] :
            j \in JobsWithToken(req.clientRequestToken) }

\* One iteration of: for job_no in range(num_simulation_workers).
LaunchIteration ==
    /\ pc = "launch_loop"
    /\ Len(responses) < num_simulation_workers
    /\ UNCHANGED simulation_application
    /\ \/ /\ calls' = Append(calls, TimedCall("create_simulation_job",
                                               SimulationJobRequest, TRUE))
          /\ \E served \in ServeCreateSimulationJob(SimulationJobRequest) :
                /\ responses' = Append(responses, [arn |-> served.arn])
                /\ sim_jobs' = served.jobs
          /\ UNCHANGED <<pc, exc>>
       \/ /\ Fails(TimedCall("create_simulation_job", SimulationJobRequest, FALSE))
          /\ UNCHANGED <<responses, sim_jobs>>
    /\ UNCHANGED <<clock, config, outputs, pending, s3_bucket, naming, route_tables,
                   simulation_app_arn, job_arns, cancel_no, monitoring, s3_csv>>

JobArnsButFirst(rs) == [i \in 1..(Len(rs) - 1) |-> rs[i + 1].arn]

\* job_arns = [response["arn"] for response in responses]
JobArns(rs) == [i \in 1..Len(rs) |-> rs[i].arn]

\* The launch cell after the loop.
LaunchDone ==
    /\ pc = "launch_loop"
    /\ Len(responses) >= num_simulation_workers
    /\ job_arns' = JobArns(responses)
    /\ pc' = "links"
    /\ UNCHANGED <<clock, config, calls, outputs, exc, pending, s3_bucket, naming,
                   route_tables, simulation_app_arn, simulation_application,
                   responses, cancel_no, monitoring, s3_csv, sim_jobs>>

\* Visualizing the simulations: the console links are displayed.
DisplayLinks ==
    /\ pc = "links"
    /\ displayed' = Append(displayed, "generate_robomaker_links")
    /\ pc' = "tmp_dir"
    /\ UNCHANGED <<clock, config, calls, stdout, exc, pending, s3_bucket, naming,
                   route_tables, simulation, monitoring, s3_csv, sim_jobs>>

\* tmp_dir and intermediate_folder_key.
MakeTmpDir ==
    /\ pc = "tmp_dir"
    /\ intermediate_folder_key' = job_name \o "/output/intermediate"
    /\ pc' = "plot_begin"
    /\ UNCHANGED <<clock, config, calls, outputs, exc, pending, s3_bucket, naming,
                   route_tables, simulation, key, csv_file, df, s3_csv,
                   sim_jobs>>

csv_file_name == "worker_0.simple_rl_graph.main_level.main_level.agent_0.csv"

\* The plot cell up to the call of wait_for_s3_object.
PlotBegin ==
    /\ pc = "plot_begin"
    /\ key' = intermediate_folder_key \o "/" \o csv_file_name
    /\ pc' = "waiting"
    /\ UNCHANGED <<clock, config, calls, outputs, exc, pending, s3_bucket, naming,
                   route_tables, simulation, intermediate_folder_key, csv_file, df,
                   s3_csv, sim_jobs>>

\* The columns of the metrics CSV and the texts a cell of it can hold.
Columns == {"Episode #", "Training Reward"}

CellTexts == [Columns -> {"", "5.0"}]

\* The metrics files of up to n data rows.
CsvFiles(n) == UNION { [1..k -> CellTexts] : k \in 0..n }

\* The training job (remote) writes the metrics CSV, one of `files`; only the
\* wait observes it.
RemoteWrites(files) ==
    /\ pc = "waiting"
    /\ s3_csv = <<>>
    /\ \E rows \in files : s3_csv' = << rows >>
    /\ UNCHANGED <<pc, clock, config, calls, outputs, exc, pending, s3_bucket,
                   naming, route_tables, simulation, monitoring, sim_jobs>>

\* Three metrics files: no data row yet, a row with its reward, a row without.
CsvSamples ==
    { <<>>,
      << [c \in Columns |-> "5.0"] >>,
      << [c \in Columns |-> IF c = "Training Reward" THEN "" ELSE "5.0"] >> }

RemoteWritesCsv == RemoteWrites(CsvSamples)

RemoteWritesLongCsv == RemoteWrites(CsvFiles(MaxFrameRows))

WaitForS3ObjectOnce ==
    /\ pc = "waiting"
    /\ calls' = Append(calls, Call("wait_for_s3_object",
                                   [bucket |-> s3_bucket, key |-> key], TRUE))
    /\ csv_file' = s3_csv
    /\ pc' = "plot"
    /\ UNCHANGED <<clock, config, outputs, exc, pending, s3_bucket, naming,
                   route_tables, simulation, intermediate_folder_key, key, df,
                   s3_csv, sim_jobs>>

\* wait_for_s3_object(s3_bucket, key, tmp_dir): returns once the object exists,
\* having downloaded it.
WaitForS3Object ==
    /\ pc = "waiting"
    /\ s3_csv # <<>>
    /\ calls' = Append(calls, Call("wait_for_s3_object",
                                   [bucket |-> s3_bucket, key |-> key], TRUE))
    /\ csv_file' = s3_csv
    /\ pc' = "plot"
    /\ UNCHANGED <<clock, config, outputs, exc, pending, s3_bucket, naming,
                   route_tables, simulation, intermediate_folder_key, key, df,
                   s3_csv, sim_jobs>>

NaN == <<>>

\* pd.read_csv: one frame row per data row, an empty cell read as NaN.
ReadCsv(rows) ==
    [ i \in 1..Len(rows) |->
        [ index |-> i - 1,
          cells |-> [ c \in Columns |->
                        IF rows[i][c] = "" THEN NaN ELSE << rows[i][c] >> ] ] ]

RECURSIVE DropNaAnyColumn(_, _)
DropNaAnyColumn(frame, subset) ==
    IF frame = <<>> THEN <<>>
    ELSE LET row == Head(frame)
             rest == DropNaAnyColumn(Tail(frame), subset)
         IN  IF \E c \in Columns : row.cells[c] = NaN
             THEN rest
             ELSE << row >> \o rest

RECURSIVE DropNa(_, _)
\* df.dropna(subset=subset): the rows with no NaN in the subset's columns.
DropNa(frame, subset) ==
    IF frame = <<>> THEN <<>>
    ELSE LET row == Head(frame)
             rest == DropNa(Tail(frame), subset)
         IN  IF \E c \in subset : row.cells[c] = NaN
             THEN rest
             ELSE << row >> \o rest

\* read_csv, dropna(subset=['Training Reward']) and plot.
Plot ==
    /\ pc = "plot"
    /\ df' = << DropNa(ReadCsv(csv_file[1]), {"Training Reward"}) >>
    /\ calls' = Append(calls, Call("df.plot",
                                   [x |-> "Episode #", y |-> "Training Reward"], TRUE))
    /\ pc' = "cancel"
    /\ UNCHANGED <<clock, config, outputs, exc, pending, s3_bucket, naming,
                   route_tables, simulation, intermediate_folder_key, key,
                   csv_file, s3_csv, sim_jobs>>

JobToCancelFirst(arns, n) == arns[1]

\* The loop variable job_arn of the teardown loop after n iterations.
JobToCancel(arns, n) == arns[n + 1]

\* One iteration of: for job_arn in job_arns: cancel_simulation_job(job=job_arn).
CancelIteration ==
    /\ pc = "cancel"
    /\ cancel_no < Len(job_arns)
    /\ LET job_arn == JobToCancel(job_arns, cancel_no)
       IN  \/ /\ calls' = Append(calls, Call("cancel_simulation_job",
                                             [job |-> job_arn], TRUE))
              /\ cancel_no' = cancel_no + 1
              /\ UNCHANGED <<pc, exc>>
           \/ /\ Fails(Call("cancel_simulation_job", [job |-> job_arn], FALSE))
              /\ UNCHANGED cancel_no
    /\ UNCHANGED <<clock, config, outputs, pending, s3_bucket, naming, route_tables,
                   simulation_app_arn, simulation_application, responses, job_arns,
                   monitoring, s3_csv, sim_jobs>>

\* The teardown loop is exhausted.
CancelDone ==
    /\ pc = "cancel"
    /\ cancel_no >= Len(job_arns)
    /\ pc' = "stop_training"
    /\ UNCHANGED <<clock, config, calls, outputs, exc, pending, s3_bucket, naming,
                   route_tables, simulation, monitoring, s3_csv, sim_jobs>>

\* stop_training_job(TrainingJobName=estimator._current_job_name), the name fit was
\* given.
StopTrainingJob ==
    /\ pc = "stop_training"
    /\ \/ /\ calls' = Append(calls, Call("stop_training_job",
                                         [TrainingJobName |-> job_name], TRUE))
          /\ pc' = "evaluation"
          /\ UNCHANGED exc
       \/ Fails(Call("stop_training_job", [TrainingJobName |-> job_name], FALSE))
    /\ UNCHANGED <<clock, config, outputs, pending, s3_bucket, naming, route_tables,
                   simulation, monitoring, s3_csv, sim_jobs>>

EvaluationEnvOutputPrefix ==
    [ MODEL_S3_BUCKET |-> s3_bucket,
      MODEL_S3_PREFIX |-> s3_prefix_robomaker,
      ROS_AWS_REGION |-> aws_region,
      NUMBER_OF_TRIALS |-> ToString(20),
      MARKOV_PRESET_FILE |-> RLCOACH_PRESET \o ".py",
      WORLD_NAME |-> "hard_track" ]

\* envriron_vars of the evaluation cell.
EvaluationEnv ==
    [ MODEL_S3_BUCKET |-> s3_bucket,
      MODEL_S3_PREFIX |-> s3_prefix,
      ROS_AWS_REGION |-> aws_region,
      NUMBER_OF_TRIALS |-> ToString(20),
      MARKOV_PRESET_FILE |-> RLCOACH_PRESET \o ".py",
      WORLD_NAME |-> "hard_track" ]

\* Evaluation: one more simulation job, whose ARN is only printed.
Evaluation ==
    /\ pc = "evaluation"
    /\ simulation_application' =
         [ application |-> simulation_app_arn,
           launchFile |-> "evaluation.launch",
           environmentVariables |-> EvaluationEnv ]
    /\ \/ /\ calls' = Append(calls, TimedCall("create_simulation_job",
                                               SimulationJobRequest, TRUE))
          /\ \E served \in ServeCreateSimulationJob(SimulationJobRequest) :
                sim_jobs' = served.jobs
          /\ pc' = "delete_app"
          /\ UNCHANGED exc
       \/ /\ Fails(TimedCall("create_simulation_job", SimulationJobRequest, FALSE))
          /\ UNCHANGED sim_jobs
    /\ UNCHANGED <<clock, config, outputs, pending, s3_bucket, naming, route_tables,
                   simulation_app_arn, responses, job_arns, cancel_no, monitoring,
                   s3_csv>>

\* Clean Up Simulation Application Resource.
DeleteSimulationApplication ==
    /\ pc = "delete_app"
    /\ \/ /\ calls' = Append(calls, Call("delete_simulation_application",
                                         [application |-> simulation_app_arn], TRUE))
          /\ pc' = "done"
          /\ UNCHANGED exc
       \/ Fails(Call("delete_simulation_application",
                     [application |-> simulation_app_arn], FALSE))
    /\ UNCHANGED <<clock, config, outputs, pending, s3_bucket, naming, route_tables,
                   simulation, monitoring, s3_csv, sim_jobs>>

\* ------------------------------------------------------- the specification

\* The notebook's cells.
Cells ==
    \/ SetupBucket
    \/ DefineVariables
    \/ CreateRole
    \/ DisplayTrustHelp
    \/ ConfigureVpc
    \/ DescribeRouteTablesCall
    \/ DescribeRouteTablesResult
    \/ CreateVpcEndpointCall
    \/ CreateVpcEndpointResult
    \/ Staging
    \/ Fit
    \/ BundleUpload
    \/ CreateSimulationApplicationCall
    \/ CreateSimulationApplicationResult
    \/ LaunchSetup
    \/ LaunchIteration
    \/ LaunchDone
    \/ DisplayLinks
    \/ MakeTmpDir
    \/ PlotBegin
    \/ WaitForS3Object
    \/ Plot
    \/ CancelIteration
    \/ CancelDone
    \/ StopTrainingJob
    \/ Evaluation
    \/ DeleteSimulationApplication

Next ==
    \/ Tick
    \/ RemoteWritesCsv
    \/ Cells

Spec == Init /\ [][Next]_vars

\* The run in one region with one worker, the metrics file of up to MaxFrameRows
\* rows: the specification of the claims about the frame handed to the plot.
InitPlot ==
    /\ Init
    /\ boto_region_name = "us-west-2"
    /\ num_simulation_workers = 1

NextPlot ==
    \/ Tick
    \/ RemoteWritesLongCsv
    \/ Cells

SpecPlot == InitPlot /\ [][NextPlot]_vars

\* The same run with the wait served: wait_for_s3_object keeps polling, so once
\* the object exists it returns.
SpecWait == InitPlot /\ [][Next]_vars /\ WF_vars(WaitForS3Object)

\* ------------------------------------------------------------- the claims

\* The cells in the order Run All executes them.
CellOrder ==
    << "setup_bucket", "define_vars", "role", "trust_help", "configure_vpc",
       "describe_route_tables", "route_tables_result", "create_vpc_endpoint",
       "vpc_endpoint_result", "staging", "fit", "bundle", "create_app",
       "create_app_result", "launch_setup", "launch_loop", "links", "tmp_dir",
       "plot_begin", "waiting", "plot", "cancel", "stop_training", "evaluation",
       "delete_app", "done" >>

Position(label) == CHOOSE i \in DOMAIN CellOrder : CellOrder[i] = label

\* Where the run is, or where it stopped.
Where == IF pc = "raised" THEN exc.at ELSE pc

\* The step `label` has run to its end without raising.
Completed(label) == Position(Where) > Position(label)

\* The positions in the call log of the calls of `api`.
CallsOf(api) == { i \in DOMAIN calls : calls[i].api = api }

\* The calls of `api`, in order.
CallSeq(api) == SelectSeq(calls, LAMBDA c : c.api = api)

GateRaised == pc = "raised" /\ exc.at = "define_vars"

\* C1 as stated: the gate lets through exactly us-west-2, us-east-1 and eu-west-1,
\* and when it raises no call to a cloud service has been issued before.
C1_NoCallBeforeGate ==
    aws_region # "" =>
        /\ GateRaised <=> aws_region \notin {"us-west-2", "us-east-1", "eu-west-1"}
        /\ GateRaised => calls = <<>>

\* C1, amended: the gate lets through exactly us-west-2, us-east-1 and eu-west-1;
\* for any other region the run stops with the gate's exception, and the only
\* call issued before it is the bucket resolution of the Setup S3 bucket cell.
C1_RegionGate ==
    aws_region # "" =>
        /\ GateRaised <=> aws_region \notin {"us-west-2", "us-east-1", "eu-west-1"}
        /\ GateRaised =>
             /\ exc.type = "Exception" /\ exc.msg = RegionMessage
             /\ Len(calls) = 1 /\ calls[1].api = "default_bucket" /\ calls[1].ok

C1_Witness ==
    /\ GateRaised
    /\ aws_region = "ap-south-1"
    /\ Len(calls) = 1

\* The route-table listing returned, and returned no route table of the default VPC.
ListedNoRouteTable ==
    /\ \E i \in CallsOf("describe_route_tables") : calls[i].ok
    /\ pc # "route_tables_result"
    /\ route_tables = <<>>

\* C2: when the listing yields zero route tables the run stops with an assertion
\* error and create_vpc_endpoint is never called; every create_vpc_endpoint call
\* carries a non-empty list of route-table ids.
C2_NoEndpointWithoutRouteTables ==
    /\ \A i \in CallsOf("create_vpc_endpoint") : Len(calls[i].args.RouteTableIds) >= 1
    /\ ListedNoRouteTable =>
         /\ pc = "raised" /\ exc.type = "AssertionError"
         /\ CallsOf("create_vpc_endpoint") = {}

C2_Witness ==
    /\ ListedNoRouteTable
    /\ pc = "raised"
    /\ exc.at = "route_tables_result"

\* What the cells after the endpoint cell read and write.
AfterEndpoint ==
    <<calls, displayed, exc, s3_bucket, naming, route_tables, simulation,
      monitoring, s3_csv, sim_jobs, clock, config>>

\* C3: when create_vpc_endpoint raises an exception whose message contains
\* "RouteAlreadyExists", the endpoint step ends without raising, and the run goes
\* on to artifact staging in the state a successful creation leaves.
C3_RouteAlreadyExistsSwallowed ==
    [][ ( /\ pc = "vpc_endpoint_result"
          /\ \/ pending.kind = "ok"
             \/ pending.kind = "exc" /\ Contains(pending.msg, "RouteAlreadyExists") )
        => ( /\ pc' = "staging"
             /\ exc' = NoExc
             /\ pending' = NoPending
             /\ UNCHANGED AfterEndpoint ) ]_vars

C3_Witness ==
    /\ stdout = << "S3 endpoint already exists." >>
    /\ exc = NoExc
    /\ CallsOf("create_training_job") # {}
    /\ \E i \in CallsOf("create_vpc_endpoint") : ~calls[i].ok

\* An exception of a network-setup call is in flight and its message contains
\* "UnauthorizedOperation".
UnauthorizedInFlight ==
    /\ pc \in {"route_tables_result", "vpc_endpoint_result"}
    /\ pending.kind = "exc"
    /\ Contains(pending.msg, "UnauthorizedOperation")

\* The permission help is displayed, the exception in flight is raised as it is,
\* and the run stops there.
HelpedAndReraised ==
    /\ displayed' = Append(displayed, "generate_help_for_s3_endpoint_permissions")
    /\ pc' = "raised"
    /\ exc' = [type |-> "ClientError", msg |-> pending.msg, at |-> pc]
    /\ calls' = calls

\* C4 as stated: an "UnauthorizedOperation" exception of describe_route_tables or
\* of create_vpc_endpoint gets the permission help displayed and is re-raised.
C4_UnauthorizedAlwaysReraised ==
    [][ UnauthorizedInFlight => HelpedAndReraised ]_vars

\* C4, amended: so it is for describe_route_tables, and for create_vpc_endpoint
\* unless the message also contains "RouteAlreadyExists" (which is tested first,
\* and then the exception is swallowed); no later step runs.
C4_UnauthorizedReraised ==
    [][ ( /\ UnauthorizedInFlight
          /\ pc = "vpc_endpoint_result" => ~Contains(pending.msg, "RouteAlreadyExists") )
        => HelpedAndReraised ]_vars

C4_Witness ==
    /\ pc = "raised"
    /\ exc.at = "vpc_endpoint_result"
    /\ exc.msg = "UnauthorizedOperation"
    /\ displayed[Len(displayed)] = "generate_help_for_s3_endpoint_permissions"
    /\ CallsOf("aws s3 rm") = {}

\* The create_simulation_job calls of the launch loop, in order.
RolloutCalls ==
    SelectSeq(calls,
              LAMBDA c : /\ c.api = "create_simulation_job"
                         /\ c.args.simulationApplications[1].launchFile
                              = "distributed_training.launch")

\* The job ARNs the cancel_simulation_job calls carried, in order.
CancelledArns ==
    LET cs == CallSeq("cancel_simulation_job")
    IN  [i \in 1..Len(cs) |-> cs[i].args.job]

\* C5: the launch loop issues exactly num_simulation_workers create_simulation_job
\* calls; when all succeed job_arns has that many elements, the i-th the ARN the
\* service returned to the i-th call; the teardown loop issues exactly one
\* cancel_simulation_job per element of job_arns, in order.
C5_LaunchAndCancelCounts ==
    LET rollouts == RolloutCalls
        cancelled == CancelledArns
    IN  /\ Len(rollouts) <= num_simulation_workers
        /\ Len(cancelled) <= Len(job_arns)
        /\ \A i \in 1..Len(cancelled) : cancelled[i] = job_arns[i]
        /\ Completed("launch_loop") =>
             /\ Len(rollouts) = num_simulation_workers
             /\ \A i \in 1..Len(rollouts) : rollouts[i].ok
             /\ Len(job_arns) = num_simulation_workers
             /\ \A i \in 1..Len(job_arns) :
                  /\ job_arns[i] = responses[i].arn
                  /\ \E j \in 1..Len(sim_jobs) :
                       /\ sim_jobs[j].arn = job_arns[i]
                       /\ sim_jobs[j].token = rollouts[i].args.clientRequestToken
        /\ Completed("cancel") =>
             /\ cancelled = job_arns
             /\ \A i \in CallsOf("cancel_simulation_job") : calls[i].ok

C5_Witness ==
    /\ pc = "stop_training"
    /\ num_simulation_workers = 2
    /\ Len(job_arns) = 2
    /\ job_arns[1] # job_arns[2]
    /\ Len(CancelledArns) = 2

\* The text of s after its first n characters.
DropPrefix(s, n) == SubSeq(s, n + 1, Len(s))

\* C6: the training-job name starts with "rl-deepracer" and contains "sagemaker",
\* the simulation output prefix contains "robomaker", and the two are the same
\* text but for the marker: the same timestamp follows it.
C6_NamesFromOneTimestamp ==
    job_name # "" =>
        /\ StartsWith(job_name, "rl-deepracer")
        /\ Contains(job_name, "sagemaker")
        /\ Contains(s3_prefix_robomaker, "robomaker")
        /\ StartsWith(job_name, "rl-deepracer-sagemaker-")
        /\ StartsWith(s3_prefix_robomaker, "rl-deepracer-robomaker-")
        /\ DropPrefix(job_name, Len("rl-deepracer-sagemaker-"))
             = DropPrefix(s3_prefix_robomaker, Len("rl-deepracer-robomaker-"))

C6_Witness ==
    /\ job_name = "rl-deepracer-sagemaker-190101-000001"
    /\ s3_prefix_robomaker = "rl-deepracer-robomaker-190101-000001"
    /\ pc = "role"

\* C7: one prefix throughout: the artifacts are staged under s3_prefix, the
\* training job is submitted under that name and given it as hyperparameter
\* s3_prefix, every simulation job (rollout and evaluation) is given it as
\* MODEL_S3_PREFIX, the metrics key that is polled starts with it, and it is
\* still the value of s3_prefix in every later state.
C7_OnePrefix ==
    /\ job_name = s3_prefix
    /\ \A i \in CallsOf("aws s3 rm") :
         calls[i].args.target = "s3://" \o s3_bucket \o "/" \o s3_prefix
    /\ \A i \in CallsOf("aws s3 cp") :
         calls[i].args.source # "simulation_ws.tar.gz" =>
           StartsWith(calls[i].args.target, "s3://" \o s3_bucket \o "/" \o s3_prefix \o "/")
    /\ \A i \in CallsOf("create_training_job") :
         /\ calls[i].args.TrainingJobName = s3_prefix
         /\ calls[i].args.hyperparameters.s3_prefix = s3_prefix
    /\ \A i \in CallsOf("create_simulation_job") :
         calls[i].args.simulationApplications[1].environmentVariables.MODEL_S3_PREFIX
           = s3_prefix
    /\ \A i \in CallsOf("wait_for_s3_object") :
         calls[i].args.key = s3_prefix \o "/output/intermediate/" \o csv_file_name
    /\ \A i \in CallsOf("stop_training_job") :
         calls[i].args.TrainingJobName = s3_prefix

C7_Witness ==
    /\ pc = "done"
    /\ s3_prefix = "rl-deepracer-sagemaker-190101-000001"
    /\ Len(CallSeq("create_simulation_job")) = 3
    /\ CallsOf("create_training_job") # {}
    /\ CallsOf("wait_for_s3_object") # {}

\* The simulation application has been asked to be deleted.
DeleteCalled == CallsOf("delete_simulation_application") # {}

\* A cancel_simulation_job call carrying `arn` is in the log.
CancelIssued(arn) ==
    \E i \in CallsOf("cancel_simulation_job") : calls[i].args.job = arn

\* C8 as stated: when delete_simulation_application is called, a cancel call has
\* been issued for every simulation job created during the run, the evaluation
\* job included.
C8_EveryJobCancelled ==
    DeleteCalled => \A j \in 1..Len(sim_jobs) : CancelIssued(sim_jobs[j].arn)

\* C8, amended: when delete_simulation_application is called, a cancel call has
\* been issued for every job the launch loop created; the evaluation job, created
\* after the teardown loop, has none.
C8_RolloutJobsCancelled ==
    DeleteCalled =>
        \A j \in 1..Len(sim_jobs) :
            IF sim_jobs[j].launchFile = "distributed_training.launch"
            THEN \E i \in CallsOf("cancel_simulation_job") :
                    /\ calls[i].args.job = sim_jobs[j].arn
                    /\ calls[i].ok
                    /\ \A d \in CallsOf("delete_simulation_application") : i < d
            ELSE ~CancelIssued(sim_jobs[j].arn)

C8_Witness ==
    /\ pc = "done"
    /\ Len(sim_jobs) = 3
    /\ sim_jobs[3].launchFile = "evaluation.launch"
    /\ ~CancelIssued(sim_jobs[3].arn)
    /\ CancelIssued(sim_jobs[1].arn) /\ CancelIssued(sim_jobs[2].arn)

\* C9: the frame handed to the plot holds exactly the rows of the metrics file
\* whose "Training Reward" cell is not empty, as read, in the order of the file.
C9_PlottedRows ==
    df # <<>> =>
        LET rows == csv_file[1]
            frame == df[1]
        IN  /\ \A k \in 1..Len(frame) :
                 /\ frame[k].index + 1 \in 1..Len(rows)
                 /\ rows[frame[k].index + 1]["Training Reward"] # ""
                 /\ \A c \in Columns :
                      frame[k].cells[c] =
                        IF rows[frame[k].index + 1][c] = ""
                        THEN <<>>
                        ELSE << rows[frame[k].index + 1][c] >>
            /\ \A i \in 1..Len(rows) :
                 rows[i]["Training Reward"] # "" =>
                   \E k \in 1..Len(frame) : frame[k].index = i - 1
            /\ \A k \in 1..(Len(frame) - 1) : frame[k].index < frame[k + 1].index

C9_Witness ==
    /\ df # <<>>
    /\ Len(csv_file[1]) = 3
    /\ Len(df[1]) = 2
    /\ df[1][1].index = 0 /\ df[1][1].cells["Episode #"] = <<>>
    /\ df[1][2].index = 2
    /\ csv_file[1][2]["Training Reward"] = ""

\* The wall-clock second a logged call was issued in.
SecondOf(call) == call.at \div TicksPerSecond

\* C10: the clientRequestToken of a create_simulation_job request depends on the
\* wall-clock second of the request and on nothing else: requests issued within
\* the same second carry the same token, requests of different seconds differ.
C10_TokenPerSecond ==
    LET cs == CallSeq("create_simulation_job")
    IN  \A i, j \in 1..Len(cs) :
            (SecondOf(cs[i]) = SecondOf(cs[j]))
              <=> (cs[i].args.clientRequestToken = cs[j].args.clientRequestToken)

\* Two launch iterations at different instants of one second, a deduplicating
\* service: two successful calls, one job, the same ARN twice in job_arns.
C10_Witness ==
    /\ Completed("launch_loop")
    /\ num_simulation_workers = 2
    /\ RolloutCalls[1].at # RolloutCalls[2].at
    /\ RolloutCalls[1].ok /\ RolloutCalls[2].ok
    /\ Len(sim_jobs) = 1
    /\ job_arns[1] = job_arns[2]

\* The number NUMBER_OF_ROLLOUT_WORKERS tells the simulation job of a request.
RolloutWorkersTold(call) ==
    call.args.simulationApplications[1].environmentVariables.NUMBER_OF_ROLLOUT_WORKERS

TrainingSubmitted == \E i \in CallsOf("create_training_job") : calls[i].ok

\* The run stopped on a create_simulation_job call of the launch loop that failed.
LaunchFailed == pc = "raised" /\ exc.at = "launch_loop"

\* C12: a failing create_simulation_job call stops the run and nothing is issued
\* after it; when it is a call of the launch loop, the training job is submitted
\* and no stop_training_job is issued for it, job_arns holds no ARN, and the jobs
\* the earlier iterations created exist at the service with no
\* cancel_simulation_job issued for any of them.
C12_NoCompensation ==
    /\ \A i \in CallsOf("create_simulation_job") :
         ~calls[i].ok => pc = "raised" /\ i = Len(calls)
    /\ LaunchFailed =>
         /\ TrainingSubmitted
         /\ ~calls[Len(calls)].ok /\ calls[Len(calls)].api = "create_simulation_job"
         /\ CallsOf("stop_training_job") = {}
         /\ CallsOf("cancel_simulation_job") = {}
         /\ job_arns = <<>>
         /\ Len(sim_jobs) <= Len(RolloutCalls) - 1
         /\ \A i \in 1..(Len(RolloutCalls) - 1) :
              \E j \in 1..Len(sim_jobs) :
                 /\ sim_jobs[j].arn = responses[i].arn
                 /\ ~CancelIssued(sim_jobs[j].arn)

C12_Witness ==
    /\ LaunchFailed
    /\ num_simulation_workers = 2
    /\ Len(RolloutCalls) = 2
    /\ RolloutCalls[1].ok
    /\ Len(sim_jobs) = 1
    /\ TrainingSubmitted

\* The run has gone past the wait for the metrics object.
PastWait == Position(Where) > Position("waiting")

\* Past the wait the metrics object exists and is the file that was downloaded,
\* and the wait was for the metrics key under the job's name; while the object
\* does not exist the run is not past the wait and has issued no plot or
\* teardown call.
WaitedForMetrics ==
    /\ PastWait =>
         /\ s3_csv # <<>>
         /\ csv_file = s3_csv
         /\ \E i \in CallsOf("wait_for_s3_object") :
              calls[i].args.key = job_name \o
                "/output/intermediate/worker_0.simple_rl_graph.main_level.main_level.agent_0.csv"
    /\ s3_csv = <<>> =>
         /\ ~PastWait
         /\ df = <<>>
         /\ \A api \in {"df.plot", "cancel_simulation_job", "stop_training_job",
                         "delete_simulation_application"} : CallsOf(api) = {}

\* C13: load-and-plot is reached only after the metrics object exists at its key;
\* as long as the object does not exist the run stays at the wait, with no plot
\* and no teardown call; once the object exists the wait ends.
C13_WaitForMetrics ==
    /\ []WaitedForMetrics
    /\ (pc = "waiting" /\ s3_csv # <<>>) ~> (pc # "waiting")

C13_Witness ==
    /\ pc = "plot"
    /\ s3_csv # <<>>
    /\ csv_file = s3_csv
    /\ CallsOf("wait_for_s3_object") # {}

\* An exception of a network-setup call is in flight.
NetworkExceptionInFlight ==
    /\ pc \in {"route_tables_result", "vpc_endpoint_result"}
    /\ pending.kind = "exc"

\* The exception in flight is swallowed: the step ends without raising.
Swallowed == pc' # "raised" /\ exc' = NoExc

\* One help text is displayed, then the exception in flight is raised as it is.
HelpThenReraised ==
    /\ \E help \in {"generate_help_for_s3_endpoint_permissions",
                     "create_s3_endpoint_manually"} :
          displayed' = Append(displayed, help)
    /\ pc' = "raised"
    /\ exc' = [type |-> "ClientError", msg |-> pending.msg, at |-> pc]
    /\ calls' = calls

\* create_vpc_endpoint is attempted at most once.
EndpointAttemptedOnce == Cardinality(CallsOf("create_vpc_endpoint")) <= 1

\* C14: in network setup an exception is swallowed only when it comes from
\* create_vpc_endpoint and its message contains "RouteAlreadyExists"; every other
\* exception of create_vpc_endpoint and every exception of describe_route_tables
\* is raised again as it is after one help text; create_vpc_endpoint is attempted
\* at most once in a run.
C14_OnlyRouteAlreadyExistsSwallowed ==
    /\ [][ NetworkExceptionInFlight =>
             /\ Swallowed =>
                  /\ pc = "vpc_endpoint_result"
                  /\ Contains(pending.msg, "RouteAlreadyExists")
             /\ ~Swallowed => HelpThenReraised
             /\ pc = "route_tables_result" => ~Swallowed
             /\ (pc = "vpc_endpoint_result"
                   /\ ~Contains(pending.msg, "RouteAlreadyExists")) => ~Swallowed
          ]_vars
    /\ []EndpointAttemptedOnce

C14_Witness ==
    /\ pc = "raised"
    /\ exc = [type |-> "ClientError", msg |-> "RouteAlreadyExists",
              at |-> "route_tables_result"]
    /\ displayed[Len(displayed)] = "create_s3_endpoint_manually"
    /\ CallsOf("create_vpc_endpoint") = {}

\* create_simulation_application raised and its exception is in flight.
ApplicationExceptionInFlight == pc = "create_app_result" /\ pending.kind = "exc"

\* The exception in flight is raised as it is, after the permissions help exactly
\* when its message contains "AccessDeniedException"; no ARN is recorded.
ApplicationFailureReraised ==
    /\ pc' = "raised"
    /\ exc' = [type |-> "ClientError", msg |-> pending.msg, at |-> pc]
    /\ displayed' =
         IF Contains(pending.msg, "AccessDeniedException")
         THEN Append(displayed, "generate_help_for_robomaker_all_permissions")
         ELSE displayed
    /\ simulation_app_arn' = simulation_app_arn
    /\ calls' = calls

\* simulation_app_arn is only ever assigned the ARN a successful
\* create_simulation_application returned.
ArnFromResponse ==
    simulation_app_arn' # simulation_app_arn =>
        /\ pc = "create_app_result"
        /\ pending.kind = "ok"
        /\ simulation_app_arn' = pending.val[1]

\* The run stopped on the failure of create_simulation_application.
ApplicationFailed == pc = "raised" /\ exc.at = "create_app_result"

\* After the failure nothing is recorded or created; every simulation job is
\* created with the recorded ARN, after a create_simulation_application that
\* returned.
JobsOfRegisteredApplication ==
    /\ ApplicationFailed =>
         /\ simulation_app_arn = ""
         /\ CallsOf("create_simulation_job") = {}
         /\ sim_jobs = <<>>
         /\ calls[Len(calls)].api = "create_simulation_application"
         /\ ~calls[Len(calls)].ok
    /\ \A i \in CallsOf("create_simulation_job") :
         /\ simulation_app_arn # ""
         /\ calls[i].args.simulationApplications[1].application = simulation_app_arn
         /\ \E a \in CallsOf("create_simulation_application") : a < i /\ calls[a].ok
         /\ \A a \in CallsOf("create_simulation_application") : calls[a].ok

\* C15: a failure of create_simulation_application is always raised again as it
\* is, the permissions help displayed first exactly when the message contains
\* "AccessDeniedException"; no application ARN is recorded and no
\* create_simulation_job call follows; a simulation job is only ever created with
\* the ARN a successful create_simulation_application returned.
C15_ApplicationFailureStops ==
    /\ [][ApplicationExceptionInFlight => ApplicationFailureReraised]_vars
    /\ [][ArnFromResponse]_vars
    /\ []JobsOfRegisteredApplication

C15_Witness ==
    /\ ApplicationFailed
    /\ exc.msg = "AccessDeniedException"
    /\ displayed[Len(displayed)] = "generate_help_for_robomaker_all_permissions"
    /\ simulation_app_arn = ""
    /\ TrainingSubmitted

\* The positions in the call log of the copies of the local directory `source`.
CopiesOf(source) ==
    { i \in CallsOf("aws s3 cp") : calls[i].args.source = source }

\* A call of `api` that returned stands in the log before position i.
ReturnedBefore(api, i) == \E k \in CallsOf(api) : k < i /\ calls[k].ok

\* C16: the target prefix is emptied, then the environment and preset files are
\* copied under it, then one training job (instance count 1) is submitted without
\* waiting, then the simulation application is registered, then simulation jobs
\* are created: no copy before the removal, no training job before both copies,
\* no application and no simulation job before the training job is submitted, no
\* simulation job before the application is registered, and at most one
\* submission, exactly one once the submitting cell has run.
C16_StepOrder ==
    LET rm == CallsOf("aws s3 rm")
        env == CopiesOf("src/robomaker/environments/")
        presets == CopiesOf("src/robomaker/presets/")
        fit == CallsOf("create_training_job")
    IN  /\ Cardinality(rm) <= 1
        /\ Cardinality(fit) <= 1
        /\ \A c \in env \cup presets :
             \E r \in rm : /\ r < c
                           /\ StartsWith(calls[c].args.target,
                                         calls[r].args.target \o "/")
        /\ \A t \in fit :
             /\ \E r \in rm : r < t
             /\ \E c \in env : c < t
             /\ \E c \in presets : c < t
             /\ calls[t].args.train_instance_count = 1
             /\ calls[t].args.wait = FALSE
        /\ \A a \in CallsOf("create_simulation_application") :
             ReturnedBefore("create_training_job", a)
        /\ \A j \in CallsOf("create_simulation_job") :
             /\ ReturnedBefore("create_training_job", j)
             /\ ReturnedBefore("create_simulation_application", j)
        /\ Completed("staging") =>
             Cardinality(rm) = 1 /\ Cardinality(env) = 1 /\ Cardinality(presets) = 1
        /\ Completed("fit") => \E t \in fit : calls[t].ok

C16_Witness ==
    /\ pc = "done"
    /\ Cardinality(CallsOf("aws s3 rm")) = 1
    /\ Cardinality(CallsOf("create_training_job")) = 1
    /\ Cardinality(CallsOf("create_simulation_application")) = 1
    /\ Cardinality(CallsOf("create_simulation_job")) = 3

====
